---- MODULE Spec2Model ----
(***************************************************************************)
(* Model of nodepy.context: the Context (module cache, resolver chain,     *)
(* load stack) and the Require facade of src/nodepy/context.py.            *)
(*                                                                         *)
(* Module objects, resolvers and module bodies live outside context.py;    *)
(* they are the environment: a resolver consulted by Context.resolve       *)
(* either raises ResolveError, returns a non-Module, or returns some       *)
(* Module object (a fresh one or one it returned before); a module body    *)
(* (Module.load) may call require / Context.resolve / Context.load_module, *)
(* catch or propagate what they raise, return, or raise.                   *)
(***************************************************************************)
EXTENDS Integers, Sequences, FiniteSets, TLC

\* ---- bounds -----------------------------------------------------------
MaxDepth == 3           \* nesting depth of load_module calls

\* ---- small input domains ----------------------------------------------
Filenames == {"f1", "f2"}          \* canonical identities (Module.filename)
Strings == {"a"}                   \* request strings
Dirs == {"d1", "d2"}               \* origin directories of requests
Facades == {"d1"}                  \* directories that have a Require facade
Objs == {1, 2}                     \* Module objects the resolvers may mint
ResolverChains == {<< >>, <<"R1", "R2">>}

None == 0                          \* Python None / "no object"
NoFile == "nofile"                 \* filename of an object not minted yet

Request(d, s) == [string |-> s, directory |-> d]
NoReq == [string |-> "", directory |-> ""]

\* exceptions: type, and the payload each type carries
NoExc == [type |-> "none", req |-> NoReq, paths |-> << >>]
ResolveError(req, paths) ==
  [type |-> "ResolveError", req |-> req, paths |-> paths]
RuntimeError(what) ==
  [type |-> what, req |-> NoReq, paths |-> << >>]
NonModuleError == RuntimeError("RuntimeError:non-Module")
CollisionError == RuntimeError("RuntimeError:new-Module-besides-existing")
UnregisteredError == RuntimeError("RuntimeError:not-in-Context.modules")
CorruptedError == RuntimeError("RuntimeError:module_stack-corrupted")
KeyError == RuntimeError("KeyError")
IndexError == RuntimeError("IndexError")
\* the error raised by a module body
BodyError == RuntimeError("BodyError")

IsRuntimeError(e) ==
  e \in {NonModuleError, CollisionError, UnregisteredError, CorruptedError}

VARIABLES
  resolvers,      \* Context.resolvers
  filename,       \* Module.filename of each object (NoFile: not minted)
  loaded,         \* Module.loaded
  exception,      \* Module.exception (NoExc: None)
  modules,        \* Context.modules: filename -> object or None
  module_stack,   \* Context.module_stack
  cache,          \* Require.cache of each facade: request string -> object
  callstack,      \* load_module calls whose Module.load is executing
  exc,            \* exception raised into the body on top of callstack
  started,        \* the objects on which Module.load was ever invoked
  last            \* the call or body step taken last, with its outcome

\* state of the operations outside the resolve / load pipeline
VARIABLES
  main_module,    \* Context.main_module
  scopes,         \* the push_main scopes that are open, innermost last
  mlast           \* the push_main step taken last

\* state of the calls of Require.__call__ and Require.try_ made by the
\* embedding program
VARIABLES
  exports,        \* Module.exports of each object
  call,           \* the call of the embedding program that is in progress
  result          \* what the call that ended last returned or raised

\* state of the package registry (upmd)
VARIABLES
  packages,       \* User.packages of each registered user
  files,          \* the files in the directories of the packages
  handlers,       \* the upload handler each server thread is executing
  overlapped,     \* two upload handlers have been executing at once
  uploads,        \* the number of upload requests received
  response        \* the upload request answered last, and its response

\* the variables of the resolve / load pipeline
cvars == <<resolvers, filename, loaded, exception, modules, module_stack,
           cache, callstack, exc, started, last>>
\* the variables of the push_main scopes
mvars == <<main_module, scopes, mlast>>
\* the variables the resolve / load pipeline leaves alone
\* the variables of the calls of the embedding program
tvars == <<exports, call, result>>
\* the variables of the package registry
uvars == <<packages, files, handlers, overlapped, uploads, response>>
xvars == <<mvars, tvars, uvars>>

vars == <<cvars, xvars>>

Minted(fn) == {o \in Objs : fn[o] # NoFile}
HasFree(fn) == \E o \in Objs : fn[o] = NoFile
NextObj(fn) == CHOOSE o \in Objs : fn[o] = NoFile /\ \A p \in 1..(o-1) : fn[p] # NoFile

\* the identities are interchangeable: the first object minted gets "f1"
FreshFiles(fn) == IF Minted(fn) = {} THEN {"f1"} ELSE Filenames

\* what one resolver may answer when consulted
Fail == [kind |-> "fail", m |-> None, file |-> NoFile]
NonModule == [kind |-> "nonmodule", m |-> None, file |-> NoFile]
Outcomes(fn) ==
  {Fail, NonModule}
  \cup {[kind |-> "module", m |-> o, file |-> fn[o]] : o \in Minted(fn)}
  \cup (IF HasFree(fn)
        THEN {[kind |-> "fresh", m |-> None, file |-> f] : f \in FreshFiles(fn)}
        ELSE {})
OutcomeVectors(chain, fn) == [1..Len(chain) -> Outcomes(fn)]
\* the resolvers after the first one that does not raise ResolveError are not
\* consulted: one answer for them is enough when choosing the inputs of a step
Canonical(outs) ==
  \A i, j \in DOMAIN outs : (i < j /\ outs[i] # Fail) => outs[j] = Fail
CanonicalVectors(chain, fn) == {outs \in OutcomeVectors(chain, fn) : Canonical(outs)}

\* the search paths resolver r reports in its ResolveError
SearchPaths(r) ==
  IF r = "R1" THEN << <<"R1", 1>> >> ELSE << <<"R2", 1>>, <<"R2", 2>> >>

Top(s) == s[Len(s)]
Pop(s) == SubSeq(s, 1, Len(s) - 1)


\* ---- Context.resolve ----------------------------------------------------
\* The i-th resolver returned Module object o (fn: the filenames, o's
\* included): the check against the cache, and the registration.
RegisterOverwrite(o, fn, i) ==
  [filename |-> fn, modules |-> [modules EXCEPT ![fn[o]] = o],
   m |-> o, err |-> NoExc, consulted |-> i]

RegisterAsNotFound(o, fn, i) ==
  LET have_module == modules[fn[o]] IN
  IF have_module # None /\ have_module # o
  THEN [filename |-> fn, modules |-> modules, m |-> None,
        err |-> ResolveError(NoReq, << >>), consulted |-> i]
  ELSE [filename |-> fn, modules |-> [modules EXCEPT ![fn[o]] = o],
        m |-> o, err |-> NoExc, consulted |-> i]

Register(o, fn, i) ==
  LET have_module == modules[fn[o]] IN
  IF have_module # None /\ have_module # o
  THEN [filename |-> fn, modules |-> modules, m |-> None,
        err |-> CollisionError, consulted |-> i]
  ELSE [filename |-> fn, modules |-> [modules EXCEPT ![fn[o]] = o],
        m |-> o, err |-> NoExc, consulted |-> i]

\* search_paths.extend(exc.search_paths) for the ResolveError of resolver r
ExtendFront(search_paths, r) == SearchPaths(r) \o search_paths

Extend(search_paths, r) == search_paths \o SearchPaths(r)

\* The loop over self.resolvers from position i on; outs[i] is what the
\* i-th resolver answers when (and only when) it is consulted.
RECURSIVE ResolveWalk(_, _, _, _, _)
ResolveWalk(i, outs, req, paths, fn) ==
  IF i > Len(resolvers)
  THEN [filename |-> fn, modules |-> modules, m |-> None,
        err |-> ResolveError(req, paths), consulted |-> i - 1]
  ELSE LET out == outs[i] IN
    IF out.kind = "fail"
    THEN ResolveWalk(i + 1, outs, req, Extend(paths, resolvers[i]), fn)
    ELSE IF out.kind = "nonmodule"
    THEN [filename |-> fn, modules |-> modules, m |-> None,
          err |-> NonModuleError, consulted |-> i]
    ELSE LET o == IF out.kind = "fresh" THEN NextObj(fn) ELSE out.m
             fn2 == IF out.kind = "fresh" THEN [fn EXCEPT ![o] = out.file] ELSE fn
         IN Register(o, fn2, i)

ContextResolve(req, outs) == ResolveWalk(1, outs, req, << >>, filename)

\* ---- Require.resolve ----------------------------------------------------
RequireResolveKeepFailed(d, s, outs) ==
  LET module == cache[d][s] IN
  IF module = None
  THEN LET r == ContextResolve(Request(d, s), outs) IN
       [filename |-> r.filename, modules |-> r.modules, m |-> r.m,
        err |-> r.err, consulted |-> r.consulted,
        cache |-> IF r.err = NoExc THEN [cache EXCEPT ![d][s] = r.m] ELSE cache]
  ELSE [filename |-> filename, modules |-> modules, m |-> module,
        err |-> NoExc, consulted |-> -1, cache |-> cache]

\* consulted = -1: the entry of the facade's cache was used, the resolver
\* chain was not consulted
RequireResolve(d, s, outs) ==
  LET module == cache[d][s] IN
  IF module = None \/ exception[module] # NoExc
  THEN LET r == ContextResolve(Request(d, s), outs) IN
       [filename |-> r.filename, modules |-> r.modules, m |-> r.m,
        err |-> r.err, consulted |-> r.consulted,
        cache |-> IF r.err = NoExc THEN [cache EXCEPT ![d][s] = r.m] ELSE cache]
  ELSE [filename |-> filename, modules |-> modules, m |-> module,
        err |-> NoExc, consulted |-> -1, cache |-> cache]

\* ---- Context.load_module, up to the call of Module.load -----------------
\* fn, mods: Module.filename and Context.modules at the time of the call
LoadModulePathCacheFirst(o, fn, mods) ==
  IF mods[fn[o]] = None THEN "unregistered"
  ELSE IF exception[o] # NoExc THEN "sticky"
  ELSE IF loaded[o] THEN "loaded"
  ELSE "enter"

LoadModulePath(o, fn, mods) ==
  IF exception[o] # NoExc THEN "sticky"
  ELSE IF loaded[o] THEN "loaded"
  ELSE IF mods[fn[o]] = None THEN "unregistered"
  ELSE "enter"

LoadModuleError(o, path) ==
  IF path = "sticky" THEN exception[o]
  ELSE IF path = "unregistered" THEN UnregisteredError
  ELSE NoExc

\* a load_module call in progress: its module and the load stack it found
Frame(o) == [m |-> o, pre |-> module_stack]

\* an exception (or a normal return, NoExc) reaches the caller: the body on
\* top of stack cs, or the top level when cs is empty
Deliver(cs, e) == IF cs = << >> THEN NoExc ELSE e

\* init: whether the call ran the init hook (Module.init)
Last(op, m, err, init) == [op |-> op, m |-> m, err |-> err, init |-> init]

CallerRuns == exc = NoExc

\* Context.resolve(s, d) called from the top level or from a module body
CallResolve(d, s, outs) ==
  /\ CallerRuns
  /\ LET r == ContextResolve(Request(d, s), outs) IN
     /\ filename' = r.filename
     /\ modules' = r.modules
     /\ exc' = Deliver(callstack, r.err)
     /\ last' = Last("resolve", r.m, r.err, FALSE)
  /\ UNCHANGED <<resolvers, loaded, exception, module_stack, cache, callstack,
                 started>>
  /\ UNCHANGED xvars

\* the part of load_module after the three checks: init hook, push, and
\* the call of Module.load, whose body then runs step by step
EnterLoad(o, do_init) ==
  /\ Len(callstack) < MaxDepth
  /\ module_stack' = Append(module_stack, o)
  /\ started' = started \cup {o}
  /\ callstack' = Append(callstack, Frame(o))
  /\ exc' = NoExc

\* Context.load_module(o, do_init) called from the top level or from a body
CallLoadModule(o, do_init) ==
  /\ CallerRuns
  /\ o \in Minted(filename)
  /\ LET path == LoadModulePath(o, filename, modules)
         err == LoadModuleError(o, path) IN
     /\ last' = Last("load_module", o, err, path = "enter" /\ do_init)
     /\ IF path = "enter"
        THEN EnterLoad(o, do_init)
        ELSE /\ exc' = Deliver(callstack, err)
             /\ UNCHANGED <<module_stack, callstack, started>>
  /\ UNCHANGED <<resolvers, filename, loaded, exception, modules, cache>>
  /\ UNCHANGED xvars

\* Require.__call__(s) on the facade of directory d
CallRequire(d, s, outs) ==
  /\ CallerRuns
  /\ LET rr == RequireResolve(d, s, outs) IN
     /\ filename' = rr.filename
     /\ modules' = rr.modules
     /\ cache' = rr.cache
     /\ IF rr.err # NoExc
        THEN /\ exc' = Deliver(callstack, rr.err)
             /\ last' = Last("require", None, rr.err, FALSE)
             /\ UNCHANGED <<module_stack, callstack, started>>
        ELSE IF loaded[rr.m]
        THEN /\ exc' = NoExc
             /\ last' = Last("require", rr.m, NoExc, FALSE)
             /\ UNCHANGED <<module_stack, callstack, started>>
        ELSE LET path == LoadModulePath(rr.m, rr.filename, rr.modules)
                 err == LoadModuleError(rr.m, path) IN
             /\ last' = Last("require", rr.m, err, path = "enter")
             /\ IF path = "enter"
                THEN EnterLoad(rr.m, TRUE)
                ELSE /\ exc' = Deliver(callstack, err)
                     /\ UNCHANGED <<module_stack, callstack, started>>
  /\ UNCHANGED <<resolvers, loaded, exception>>
  /\ UNCHANGED xvars

\* ---- Context.load_module, after Module.load ------------------------------
\* the finally clause: pop, and compare the popped module with the pushed
PoppedBottom ==
  IF module_stack = << >>
  THEN [raised |-> IndexError, value |-> None]
  ELSE [raised |-> NoExc, value |-> module_stack[1]]

\* self.module_stack.pop(): raises IndexError on an empty list, returns
\* the last element otherwise
Popped ==
  IF module_stack = << >>
  THEN [raised |-> IndexError, value |-> None]
  ELSE [raised |-> NoExc, value |-> Top(module_stack)]

\* what leaves the finally clause of the load of m, raised being what
\* entered it: the IndexError of pop, the RuntimeError of the check, or
\* raised
FinallyError(m, raised) ==
  IF Popped.raised # NoExc THEN Popped.raised
  ELSE IF Popped.value # m THEN CorruptedError
  ELSE raised

\* Module.load of the module on top of the call stack returns
BodyReturn ==
  /\ callstack # << >>
  /\ exc = NoExc
  /\ LET m == Top(callstack).m
         err == FinallyError(m, NoExc) IN
     /\ loaded' = [loaded EXCEPT ![m] = TRUE]
     /\ module_stack' = Pop(module_stack)
     /\ callstack' = Pop(callstack)
     /\ exc' = Deliver(Pop(callstack), err)
     /\ last' = Last("load_return", m, err, FALSE)
  /\ UNCHANGED <<resolvers, filename, exception, modules, cache,
                 started>>
  /\ UNCHANGED xvars

LoadFailNoPop(e) ==
  LET m == Top(callstack).m
      present == modules[filename[m]] # None
      raised == IF present THEN e ELSE KeyError IN
  /\ exception' = [exception EXCEPT ![m] = e]
  /\ modules' = IF present THEN [modules EXCEPT ![filename[m]] = None] ELSE modules
  /\ module_stack' = module_stack
  /\ callstack' = Pop(callstack)
  /\ exc' = Deliver(Pop(callstack), raised)
  /\ last' = Last("load_fail", m, raised, FALSE)
  /\ UNCHANGED <<resolvers, filename, loaded, cache, started>>
  /\ UNCHANGED xvars

\* Module.load of the module on top of the call stack raises e
LoadFail(e) ==
  LET m == Top(callstack).m
      present == modules[filename[m]] # None
      raised == FinallyError(m, IF present THEN e ELSE KeyError) IN
  /\ exception' = [exception EXCEPT ![m] = e]
  /\ modules' = IF present THEN [modules EXCEPT ![filename[m]] = None] ELSE modules
  /\ module_stack' = Pop(module_stack)
  /\ callstack' = Pop(callstack)
  /\ exc' = Deliver(Pop(callstack), raised)
  /\ last' = Last("load_fail", m, raised, FALSE)
  /\ UNCHANGED <<resolvers, filename, loaded, cache, started>>
  /\ UNCHANGED xvars

\* the body raises an error of its own
BodyRaise ==
  /\ callstack # << >>
  /\ exc = NoExc
  /\ LoadFail(BodyError)

\* the body lets the exception of a call it made propagate
BodyPropagate ==
  /\ callstack # << >>
  /\ exc # NoExc
  /\ LoadFail(exc)

\* the body catches the exception of a call it made and goes on
BodyCatch ==
  /\ callstack # << >>
  /\ exc # NoExc
  /\ exc' = NoExc
  /\ last' = Last("catch", Top(callstack).m, exc, FALSE)
  /\ UNCHANGED <<resolvers, filename, loaded, exception, modules, module_stack,
                 cache, callstack, started>>
  /\ UNCHANGED xvars

\* ---- Context.current_module ----------------------------------------------
current_module_bottom ==
  IF module_stack # << >> THEN module_stack[1] ELSE None

current_module ==
  IF module_stack # << >> THEN module_stack[Len(module_stack)] ELSE None

\* ---------------------------------------------------------------------
\* Context.push_main: a scoped override of Context.main_module
\* ---------------------------------------------------------------------

\* push_main scopes open at the same time
MaxScopes == 3

\* an argument of push_main that is not a nodepy.base.Module
NotAModule == -1

\* the arguments push_main is called with
MainArgs == Objs \cup {NotAModule}

\* isinstance(module, base.Module)
IsModule(x) == x \in Objs

TypeError == [type |-> "TypeError", what |-> "expected Module"]

\* the push_main step taken last: its kind, its argument, what it raised
MLast(op, arg, err) == [op |-> op, arg |-> arg, err |-> err]

SavedPrevAfter(main, module) == module

\* prev_module = self.main_module, read before main_module is assigned
SavedPrev(main, module) == main

\* a scope that is open: the generator's local prev_module, and the
\* value main_module had when the scope was entered
Scope(main, module) ==
  [prev_module |-> SavedPrev(main, module), at_entry |-> main]

\* with context.push_main(module): up to the yield
PushMainEnter(module) ==
  /\ Len(scopes) < MaxScopes
  /\ IF ~ IsModule(module)
       THEN /\ mlast' = MLast("enter", module, TypeError)
            /\ UNCHANGED <<main_module, scopes>>
       ELSE /\ scopes' = Append(scopes, Scope(main_module, module))
            /\ main_module' = module
            /\ mlast' = MLast("enter", module, NoExc)
  /\ UNCHANGED <<cvars, tvars, uvars>>

\* the with block ends, normally or by an exception raised in it: the
\* finally clause restores main_module, an exception goes on to the
\* enclosing block
PushMainExit(raised) ==
  /\ scopes # << >>
  /\ main_module' = Top(scopes).prev_module
  /\ scopes' = Pop(scopes)
  /\ mlast' = MLast("exit", Top(scopes).at_entry,
                    IF raised THEN BodyError ELSE NoExc)
  /\ UNCHANGED <<cvars, tvars, uvars>>

\* context.main_module = module, assigned by the code of a with block
\* or by the embedding program
SetMain(module) ==
  /\ main_module # module
  /\ main_module' = module
  /\ mlast' = MLast("set", module, NoExc)
  /\ UNCHANGED scopes
  /\ UNCHANGED <<cvars, tvars, uvars>>

NextMain ==
  \/ \E module \in MainArgs : PushMainEnter(module)
  \/ \E raised \in BOOLEAN : PushMainExit(raised)
  \/ \E module \in Objs \cup {None} : SetMain(module)

\* ---------------------------------------------------------------------
\* Require.__call__ and Require.try_, called by the embedding program
\* ---------------------------------------------------------------------

\* loads nested below a call of the embedding program
MaxTryDepth == 1

\* the request strings of the try_ calls
TryStrings == {"a", "b"}

\* the argument lists of the try_ calls
TryRequests == {<< >>, <<"a", "b">>}

\* the load and exports flags of the try_ calls
TryModes == {[load |-> TRUE, want |-> TRUE], [load |-> FALSE, want |-> TRUE]}

\* the answers of resolvers that keep their contract: a Module, or
\* ResolveError
TryVectors(chain, fn) ==
  {outs \in CanonicalVectors(chain, fn) :
     \A i \in DOMAIN outs : outs[i].kind # "nonmodule"}

\* the directories the bodies call Context.resolve with: the facade
\* serves the requests from its own directory
BodyDirs == Dirs \ Facades

\* the values a module body assigns to Module.exports
ExportValues == {"None", "object"}

ValueError == [type |-> "ValueError", req |-> NoReq, paths |-> << >>]

NoValue == [kind |-> "none", m |-> None, v |-> "none"]

ReturnValueFalsy(m, want) ==
  IF want
  THEN IF exports[m] \in {"NotImplemented", "None"}
       THEN [kind |-> "namespace", m |-> m, v |-> "none"]
       ELSE [kind |-> "exports", m |-> m, v |-> exports[m]]
  ELSE [kind |-> "module", m |-> m, v |-> "none"]

\* the value Require.__call__(request, exports=want) returns for module m
ReturnValue(m, want) ==
  IF want
  THEN IF exports[m] = "NotImplemented"
       THEN [kind |-> "namespace", m |-> m, v |-> "none"]
       ELSE [kind |-> "exports", m |-> m, v |-> exports[m]]
  ELSE [kind |-> "module", m |-> m, v |-> "none"]

\* what one attempt of try_ returns: Require.__call__ when load is set,
\* Require.resolve when it is not
AttemptValue(m, load, want) ==
  IF load THEN ReturnValue(m, want) ELSE [kind |-> "module", m |-> m, v |-> "none"]

\* a call in progress. kind: "require" or "try"; d: the facade; all: the
\* requests passed; rest: the requests not tried yet, the one being tried
\* first; exc_info: the ResolveError caught last; phase: "next" before an
\* attempt, "loading" while the load started by the attempt runs
NoCall ==
  [kind |-> "none", d |-> "", all |-> << >>, rest |-> << >>, load |-> TRUE,
   want |-> TRUE, exc_info |-> NoExc, m |-> None, phase |-> "idle"]

\* the end of a call. tried: the number of requests attempted
NoResult ==
  [kind |-> "none", all |-> << >>, tried |-> 0, status |-> "none",
   value |-> NoValue, err |-> NoExc, m |-> None, load |-> TRUE, want |-> TRUE,
   ran |-> FALSE]

\* the call c ends: it returns value, or raises err. m: the module of the
\* attempt made last; ran: that attempt executed Module.load
CallEnds(c, status, value, err, m, ran) ==
  [kind |-> c.kind, all |-> c.all,
   tried |-> IF c.rest = << >> THEN Len(c.all) ELSE Len(c.all) - Len(c.rest) + 1,
   status |-> status, value |-> value, err |-> err, m |-> m,
   load |-> c.load, want |-> c.want, ran |-> ran]

\* one attempt of a Require.__call__ or of a Require.resolve made by the
\* embedding program: "done" with module m or error err, or "loading"
\* when Module.load of m was entered
AttemptOutcome(d, s, load, outs) ==
  LET rr == RequireResolve(d, s, outs) IN
  IF rr.err # NoExc THEN [state |-> "done", m |-> None, err |-> rr.err]
  ELSE IF ~ load \/ loaded[rr.m] THEN [state |-> "done", m |-> rr.m, err |-> NoExc]
  ELSE LET path == LoadModulePath(rr.m, rr.filename, rr.modules) IN
       IF path = "enter" THEN [state |-> "loading", m |-> rr.m, err |-> NoExc]
       ELSE [state |-> "done", m |-> rr.m, err |-> LoadModuleError(rr.m, path)]

\* Require.resolve(s) on the facade of directory d, called by the embedding
\* program
TopResolve(d, s, outs) ==
  LET rr == RequireResolve(d, s, outs) IN
  /\ filename' = rr.filename
  /\ modules' = rr.modules
  /\ cache' = rr.cache
  /\ last' = Last("resolve", rr.m, rr.err, FALSE)
  /\ UNCHANGED <<resolvers, loaded, exception, module_stack, callstack, exc,
                 started>>

\* Require.__call__(s) on the facade of directory d, up to the return of
\* the value or to the call of Module.load
TopCall(d, s, outs) ==
  LET rr == RequireResolve(d, s, outs)
      out == AttemptOutcome(d, s, TRUE, outs) IN
  /\ filename' = rr.filename
  /\ modules' = rr.modules
  /\ cache' = rr.cache
  /\ last' = Last("require", out.m, out.err, out.state = "loading")
  /\ IF out.state = "loading"
     THEN EnterLoad(out.m, TRUE)
     ELSE UNCHANGED <<module_stack, callstack, exc, started>>
  /\ UNCHANGED <<resolvers, loaded, exception>>

TryHandleFirstError(c, m, err, ran) ==
  IF err = NoExc
  THEN [call |-> NoCall,
        result |-> CallEnds(c, "returned", AttemptValue(m, c.load, c.want),
                            NoExc, m, ran)]
  ELSE IF err.type = "ResolveError"
  THEN IF err.req.string # Head(c.rest)
       THEN [call |-> NoCall,
             result |-> CallEnds(c, "raised", NoValue, err, m, ran)]
       ELSE IF Tail(c.rest) = << >>
       THEN [call |-> NoCall,
             result |-> CallEnds(c, "raised", NoValue,
                                 IF c.exc_info = NoExc THEN err ELSE c.exc_info,
                                 m, ran)]
       ELSE [call |-> [c EXCEPT !.rest = Tail(c.rest),
                                !.exc_info = IF c.exc_info = NoExc THEN err
                                             ELSE c.exc_info,
                                !.m = None, !.phase = "next"],
             result |-> result]
  ELSE [call |-> NoCall, result |-> CallEnds(c, "raised", NoValue, err, m, ran)]

TryHandleSwallow(c, m, err, ran) ==
  IF err = NoExc
  THEN [call |-> NoCall,
        result |-> CallEnds(c, "returned", AttemptValue(m, c.load, c.want),
                            NoExc, m, ran)]
  ELSE IF Tail(c.rest) = << >>
  THEN [call |-> NoCall,
        result |-> CallEnds(c, "raised", NoValue, err, m, ran)]
  ELSE [call |-> [c EXCEPT !.rest = Tail(c.rest),
                           !.exc_info = IF err.type = "ResolveError" THEN err
                                        ELSE c.exc_info,
                           !.m = None, !.phase = "next"],
        result |-> result]

\* the body of the loop of try_ after the attempt of Head(c.rest) ended
\* with module m or error err: return, the except clause, and the raise
\* after the loop
TryHandle(c, m, err, ran) ==
  IF err = NoExc
  THEN [call |-> NoCall,
        result |-> CallEnds(c, "returned", AttemptValue(m, c.load, c.want),
                            NoExc, m, ran)]
  ELSE IF err.type = "ResolveError"
  THEN IF err.req.string # Head(c.rest)
       THEN [call |-> NoCall,
             result |-> CallEnds(c, "raised", NoValue, err, m, ran)]
       ELSE IF Tail(c.rest) = << >>
       THEN [call |-> NoCall,
             result |-> CallEnds(c, "raised", NoValue, err, m, ran)]
       ELSE [call |-> [c EXCEPT !.rest = Tail(c.rest), !.exc_info = err,
                                !.m = None, !.phase = "next"],
             result |-> result]
  ELSE [call |-> NoCall, result |-> CallEnds(c, "raised", NoValue, err, m, ran)]

\* Require.__call__ ends: the value, or the error of resolve / load_module
RequireHandle(c, m, err, ran) ==
  IF err = NoExc
  THEN [call |-> NoCall,
        result |-> CallEnds(c, "returned", ReturnValue(m, c.want), NoExc, m, ran)]
  ELSE [call |-> NoCall, result |-> CallEnds(c, "raised", NoValue, err, m, ran)]

Handle(c, m, err, ran) ==
  IF c.kind = "try" THEN TryHandle(c, m, err, ran)
  ELSE RequireHandle(c, m, err, ran)

\* the embedding program calls require(s, exports=want) on the facade of d
StartRequire(d, s, want, outs) ==
  /\ callstack = << >>
  /\ call = NoCall
  /\ TopCall(d, s, outs)
  /\ LET c == [NoCall EXCEPT !.kind = "require", !.d = d, !.all = <<s>>,
                             !.rest = <<s>>, !.want = want]
         out == AttemptOutcome(d, s, TRUE, outs) IN
     IF out.state = "loading"
     THEN /\ call' = [c EXCEPT !.m = out.m, !.phase = "loading"]
          /\ result' = NoResult
     ELSE LET h == Handle(c, out.m, out.err, FALSE) IN
          /\ call' = h.call
          /\ result' = h.result
  /\ UNCHANGED <<exports, mvars, uvars>>

\* the embedding program calls require.try_(*reqs, load=load, exports=want)
\* on the facade of d: up to the first attempt
StartTry(d, reqs, load, want) ==
  /\ callstack = << >>
  /\ call = NoCall
  /\ LET c == [NoCall EXCEPT !.kind = "try", !.d = d, !.all = reqs,
                             !.rest = reqs, !.load = load, !.want = want] IN
     IF reqs = << >>
     THEN /\ call' = NoCall
          /\ result' = CallEnds(c, "raised", NoValue, ValueError, None, FALSE)
     ELSE /\ call' = [c EXCEPT !.phase = "next"]
          /\ result' = NoResult
  /\ UNCHANGED <<cvars, exports, mvars, uvars>>

\* one pass of the loop of try_: the attempt of the next request, up to
\* its outcome or to the call of Module.load
TryAttempt(outs) ==
  /\ callstack = << >>
  /\ call.kind = "try"
  /\ call.phase = "next"
  /\ LET s == Head(call.rest)
         out == AttemptOutcome(call.d, s, call.load, outs) IN
     /\ IF call.load THEN TopCall(call.d, s, outs) ELSE TopResolve(call.d, s, outs)
     /\ IF out.state = "loading"
        THEN /\ call' = [call EXCEPT !.m = out.m, !.phase = "loading"]
             /\ UNCHANGED result
        ELSE LET h == Handle(call, out.m, out.err, FALSE) IN
             /\ call' = h.call
             /\ result' = h.result
  /\ UNCHANGED <<exports, mvars, uvars>>

\* load_module of the attempt returned or raised: the rest of
\* Require.__call__, and of the pass of the loop of try_
LoadEnds ==
  /\ callstack = << >>
  /\ call.phase = "loading"
  /\ LET h == Handle(call, call.m, last.err, TRUE) IN
     /\ call' = h.call
     /\ result' = h.result
  /\ UNCHANGED <<cvars, exports, mvars, uvars>>

\* the body that is running assigns module.exports
BodySetExports(v) ==
  /\ callstack # << >>
  /\ CallerRuns
  /\ exports[Top(callstack).m] # v
  /\ exports' = [exports EXCEPT ![Top(callstack).m] = v]
  /\ UNCHANGED <<cvars, call, result, mvars, uvars>>

\* calls made by the body that is running
BodyCalls ==
  /\ callstack # << >>
  /\ Len(callstack) <= MaxTryDepth

\* the calls of Require.__call__ by the embedding program, and the
\* bodies they run
NextRequire ==
  \/ \E d \in Facades, s \in Strings, want \in BOOLEAN :
       \E outs \in CanonicalVectors(resolvers, filename) :
         StartRequire(d, s, want, outs)
  \/ LoadEnds
  \/ \E v \in ExportValues : BodySetExports(v)
  \/ \E d \in BodyDirs, s \in Strings :
       \E outs \in CanonicalVectors(resolvers, filename) :
         BodyCalls /\ CallResolve(d, s, outs)
  \/ \E d \in Facades, s \in Strings :
       \E outs \in CanonicalVectors(resolvers, filename) :
         BodyCalls /\ CallRequire(d, s, outs)
  \/ BodyReturn
  \/ BodyRaise
  \/ BodyPropagate
  \/ BodyCatch

\* the calls of Require.try_ by the embedding program, and the bodies
\* they run
NextTry ==
  \/ \E d \in Facades, reqs \in TryRequests, mode \in TryModes :
       StartTry(d, reqs, mode.load, mode.want)
  \/ \E outs \in TryVectors(resolvers, filename) : TryAttempt(outs)
  \/ LoadEnds
  \/ \E d \in BodyDirs, s \in TryStrings :
       \E outs \in TryVectors(resolvers, filename) :
         BodyCalls /\ CallResolve(d, s, outs)
  \/ \E d \in Facades, s \in TryStrings :
       \E outs \in TryVectors(resolvers, filename) :
         BodyCalls /\ CallRequire(d, s, outs)
  \/ BodyReturn
  \/ BodyRaise
  \/ BodyPropagate
  \/ BodyCatch

\* ---------------------------------------------------------------------
\* upmd: the upload handler of the package registry
\* ---------------------------------------------------------------------

\* the registered users, in the order of their documents in the collection
UserOrder == <<"u1", "u2">>
Users == {UserOrder[i] : i \in DOMAIN UserOrder}
NoUser == "nobody"

\* package names, as sequences of characters
Foo == <<"f", "o", "o">>
FooBar == <<"f", "o", "o", "b", "a", "r">>
PackageNames == {Foo, FooBar}

\* the names of uploaded files: the manifest, the archive of the package
\* (make_package_archive_name), any other file
FileNames == {"package.json", "archive", "extra"}

\* what opening the uploaded archive and parsing its manifest gives
Archives == {"ok", "unreadable", "no-manifest", "invalid-manifest", "no-license"}

\* the threads of the server that handle requests
Workers == {1, 2}

\* the number of upload requests the server receives
MaxUploads == 3

\* the upload requests: auth: the credentials are those of user;
\* version_ok: the version of the URL parses; nfiles: len(request.files)
UploadRequests ==
  [user : Users, auth : BOOLEAN, package : PackageNames, version_ok : BOOLEAN,
   nfiles : {1, 2}, filename : FileNames, force : BOOLEAN]

\* a request that fails a check is answered whatever its later fields
\* are: one value for them is enough when choosing the inputs of a step
CanonicalRequest(r) ==
  /\ (~ r.auth) => r.version_ok
  /\ (~ r.auth \/ ~ r.version_ok) => r.nfiles = 1
  /\ (~ r.auth \/ ~ r.version_ok \/ r.nfiles # 1) => r.filename = "archive"
  /\ (~ r.auth \/ ~ r.version_ok \/ r.nfiles # 1 \/ r.filename = "package.json")
       => ~ r.force
CanonicalRequests == {r \in UploadRequests : CanonicalRequest(r)}

\* the calls of the handler that may raise, and how: a query of the
\* database raises; makedirs raises, or tar.extract, shutil.copyfile or
\* storage.save raises before or after it created the destination;
\* user.save raises; print raises
QueryFailures == {"query"}
ExtractFailures == {"extract", "extract-partial"}
CopyfileFailures == {"copyfile", "copyfile-partial"}
SaveFailures == {"save", "save-partial"}
UserSaveFailures == {"user.save", "print"}
NoFailure == "none"
Failures ==
  QueryFailures \cup ExtractFailures \cup CopyfileFailures \cup SaveFailures
    \cup UserSaveFailures \cup {NoFailure}

\* re.search(re.escape(x), y): x occurs in y
IsSubstring(x, y) ==
  \E i \in 1..(Len(y) - Len(x) + 1) : SubSeq(y, i, i + Len(x) - 1) = x

\* the query packages__contains=package on a list of strings: some element
\* of the list matches the regular expression of the string operator
\* contains
PackagesContain(list, package) ==
  \E i \in DOMAIN list : IsSubstring(package, list[i])

\* User.objects(packages__contains=package).first()
Owner(package) ==
  LET hits == {i \in DOMAIN UserOrder : PackagesContain(packages[UserOrder[i]], package)} IN
  IF hits = {} THEN NoUser
  ELSE UserOrder[CHOOSE i \in hits : \A j \in hits : i <= j]

\* package is an element of the packages list of a user other than user
ListedForOther(package, user) ==
  \E u \in Users \ {user} : \E i \in DOMAIN packages[u] : packages[u][i] = package

File(package, name) == [package |-> package, name |-> name]

\* the files written by the storing part of a handler that did not fail
Stored(h) ==
  IF h.filename = "archive"
  THEN {File(h.package, "package.json"), File(h.package, "archive")}
  ELSE {File(h.package, h.filename)}

\* a thread that handles no upload
Idle ==
  [stage |-> "idle", user |-> NoUser, package |-> << >>, filename |-> "",
   force |-> FALSE, owner |-> NoUser, list |-> << >>]

\* the handler of request r when the query of line 172 has answered owner
\* and the checks of lines 173-183 have passed: it is to run line 187.
\* stage: the call the handler runs next; list: user.packages of the
\* document read at line 221
Handler(r, owner) ==
  [stage |-> "isfile", user |-> r.user, package |-> r.package,
   filename |-> r.filename, force |-> r.force, owner |-> owner, list |-> << >>]

InFlight == {w \in Workers : handlers[w] # Idle}

\* the thread that takes the next request
FreeWorker == CHOOSE w \in Workers \ InFlight : \A v \in Workers \ InFlight : w <= v

NoResponse ==
  [op |-> "none", user |-> NoUser, package |-> << >>, code |-> 0,
   status |-> "none", stored |-> {}, added |-> FALSE]

\* response(data, code) to the request of user for package; stored: the
\* files the handler wrote; added: it saved the user with the package
\* appended
Response(user, package, code, status, stored, added) ==
  [op |-> "upload", user |-> user, package |-> package, code |-> code,
   status |-> status, stored |-> stored, added |-> added]

\* request r is answered before its handler made any call on the files
Reject(r, code) ==
  /\ response' = Response(r.user, r.package, code, "error", {}, FALSE)
  /\ UNCHANGED <<packages, files, handlers, overlapped>>

\* the handler of thread w returns response(data, code), or raises and
\* json_catch_error returns the response of status 500: nothing of what
\* the handler did is undone
Answer(w, code, status, stored, added) ==
  LET h == handlers[w] IN
  /\ response' = Response(h.user, h.package, code, status, stored, added)
  /\ handlers' = [handlers EXCEPT ![w] = Idle]
  /\ UNCHANGED overlapped

\* the handler of thread w goes on to its next call; force is not read
\* after line 187
Goto(w, stage) ==
  /\ handlers' = [handlers EXCEPT ![w].stage = stage, ![w].force = FALSE]
  /\ UNCHANGED <<overlapped, response>>

\* POST /api/upload/<package>/<version>, lines 165-183: the decorators,
\* the query for the owner (line 172) and the checks of the request
\* that read neither the database nor the files
UploadBegin(w, r, failure) ==
  /\ uploads < MaxUploads
  /\ uploads' = uploads + 1
  /\ InFlight # Workers
  /\ w = FreeWorker
  /\ failure \in QueryFailures \cup {NoFailure}
  /\ (~ r.auth \/ ~ r.version_ok) => failure = NoFailure
  /\ failure # NoFailure => (r.nfiles = 1 /\ r.filename = "archive" /\ ~ r.force)
  /\ LET owner == Owner(r.package) IN
     IF ~ r.auth THEN Reject(r, 401)
     ELSE IF ~ r.version_ok THEN Reject(r, 404)
     ELSE IF failure = "query" THEN Reject(r, 500)
     ELSE IF owner # NoUser /\ owner # r.user THEN Reject(r, 400)
     ELSE IF r.nfiles # 1 THEN Reject(r, 400)
     ELSE IF r.filename = "package.json" THEN Reject(r, 400)
     ELSE /\ handlers' = [handlers EXCEPT ![w] = Handler(r, owner)]
          /\ overlapped' = (overlapped \/ InFlight # {})
          /\ UNCHANGED <<packages, files, response>>
  /\ UNCHANGED <<cvars, mvars, tvars>>

\* lines 185-208: os.path.isfile(absfile) (line 187); then, for the
\* archive of the package, the archive is copied to a temporary file and
\* opened, and its manifest parsed
UploadIsFile(w, archive) ==
  LET h == handlers[w] IN
  /\ h.stage = "isfile"
  /\ h.filename # "archive" => archive = "ok"
  /\ (File(h.package, h.filename) \in files /\ ~ h.force) => archive = "ok"
  /\ IF File(h.package, h.filename) \in files /\ ~ h.force
     THEN Answer(w, 200, "error", {}, FALSE)
     ELSE IF h.filename # "archive" THEN Goto(w, "manifest")
     ELSE IF archive = "unreadable" THEN Answer(w, 500, "error", {}, FALSE)
     ELSE IF archive \in {"no-manifest", "invalid-manifest"}
       THEN Answer(w, 400, "error", {}, FALSE)
     ELSE IF archive = "no-license" THEN Answer(w, 200, "error", {}, FALSE)
     ELSE Goto(w, "extract")
  /\ UNCHANGED <<packages, files>>
  /\ UNCHANGED <<cvars, mvars, tvars, uploads>>

\* lines 219-226 when the files are written: a package that had an owner
\* at line 172 is not appended, and the handler returns status ok
Written(w) ==
  LET h == handlers[w] IN
  IF h.owner # NoUser
  THEN Answer(w, 200, "ok", Stored(h), FALSE)
  ELSE Goto(w, "user")

\* lines 209-211: os.makedirs and tar.extract('package.json', directory)
UploadExtract(w, failure) ==
  LET h == handlers[w] IN
  /\ h.stage = "extract"
  /\ failure \in ExtractFailures \cup {NoFailure}
  /\ IF failure = "extract"
     THEN /\ Answer(w, 500, "error", {}, FALSE)
          /\ UNCHANGED files
     ELSE /\ files' = files \cup {File(h.package, "package.json")}
          /\ IF failure = "extract-partial"
             THEN Answer(w, 500, "error", {File(h.package, "package.json")}, FALSE)
             ELSE Goto(w, "copyfile")
  /\ UNCHANGED packages
  /\ UNCHANGED <<cvars, mvars, tvars, uploads>>

\* line 212: shutil.copyfile(tmp.name, absfile)
UploadCopyfile(w, failure) ==
  LET h == handlers[w]
      manifest == File(h.package, "package.json")
      upload == File(h.package, h.filename) IN
  /\ h.stage = "copyfile"
  /\ failure \in CopyfileFailures \cup {NoFailure}
  /\ IF failure = "copyfile"
     THEN /\ Answer(w, 500, "error", {manifest}, FALSE)
          /\ UNCHANGED files
     ELSE /\ files' = files \cup {upload}
          /\ IF failure = "copyfile-partial"
             THEN Answer(w, 500, "error", {manifest, upload}, FALSE)
             ELSE Written(w)
  /\ UNCHANGED packages
  /\ UNCHANGED <<cvars, mvars, tvars, uploads>>

\* line 213: os.path.isfile of the package.json of the package
UploadManifest(w) ==
  LET h == handlers[w] IN
  /\ h.stage = "manifest"
  /\ IF File(h.package, "package.json") \notin files
     THEN Answer(w, 400, "error", {}, FALSE)
     ELSE Goto(w, "save")
  /\ UNCHANGED <<packages, files>>
  /\ UNCHANGED <<cvars, mvars, tvars, uploads>>

\* line 217: storage.save(absfile)
UploadSave(w, failure) ==
  LET h == handlers[w]
      upload == File(h.package, h.filename) IN
  /\ h.stage = "save"
  /\ failure \in SaveFailures \cup {NoFailure}
  /\ IF failure = "save"
     THEN /\ Answer(w, 500, "error", {}, FALSE)
          /\ UNCHANGED files
     ELSE /\ files' = files \cup {upload}
          /\ IF failure = "save-partial"
             THEN Answer(w, 500, "error", {upload}, FALSE)
             ELSE Written(w)
  /\ UNCHANGED packages
  /\ UNCHANGED <<cvars, mvars, tvars, uploads>>

\* lines 221-222: the document of the user is read and the package
\* appended to its packages, in the memory of the handler
UploadUser(w, failure) ==
  LET h == handlers[w] IN
  /\ h.stage = "user"
  /\ failure \in QueryFailures \cup {NoFailure}
  /\ IF failure = "query"
     THEN Answer(w, 500, "error", Stored(h), FALSE)
     ELSE /\ handlers' = [handlers EXCEPT ![w].stage = "user.save",
                            ![w].list = Append(packages[h.user], h.package)]
          /\ UNCHANGED <<overlapped, response>>
  /\ UNCHANGED <<packages, files>>
  /\ UNCHANGED <<cvars, mvars, tvars, uploads>>

\* lines 223-226: user.save() writes the packages of the document as the
\* handler has them; print; the handler returns status ok
UploadUserSave(w, failure) ==
  LET h == handlers[w] IN
  /\ h.stage = "user.save"
  /\ failure \in UserSaveFailures \cup {NoFailure}
  /\ IF failure = "user.save"
     THEN /\ Answer(w, 500, "error", Stored(h), FALSE)
          /\ UNCHANGED packages
     ELSE /\ packages' = [packages EXCEPT ![h.user] = h.list]
          /\ IF failure = "print"
             THEN Answer(w, 500, "error", Stored(h), TRUE)
             ELSE Answer(w, 200, "ok", Stored(h), TRUE)
  /\ UNCHANGED files
  /\ UNCHANGED <<cvars, mvars, tvars, uploads>>

NextUpload ==
  \/ \E w \in Workers, r \in CanonicalRequests, failure \in Failures :
       UploadBegin(w, r, failure)
  \/ \E w \in Workers, archive \in Archives : UploadIsFile(w, archive)
  \/ \E w \in Workers, failure \in Failures : UploadExtract(w, failure)
  \/ \E w \in Workers, failure \in Failures : UploadCopyfile(w, failure)
  \/ \E w \in Workers : UploadManifest(w)
  \/ \E w \in Workers, failure \in Failures : UploadSave(w, failure)
  \/ \E w \in Workers, failure \in Failures : UploadUser(w, failure)
  \/ \E w \in Workers, failure \in Failures : UploadUserSave(w, failure)

\* a Context that is not bare has one resolver, and its facade has
\* resolved nothing
InitTry ==
  /\ resolvers = <<"R1">>
  /\ filename = [o \in Objs |-> NoFile]
  /\ loaded = [o \in Objs |-> FALSE]
  /\ exception = [o \in Objs |-> NoExc]
  /\ modules = [f \in Filenames |-> None]
  /\ module_stack = << >>
  /\ cache = [d \in Facades |-> [s \in TryStrings |-> None]]
  /\ callstack = << >>
  /\ exc = NoExc
  /\ started = {}
  /\ last = Last("init", None, NoExc, FALSE)
  /\ main_module = None
  /\ scopes = << >>
  /\ mlast = MLast("init", None, NoExc)
  /\ exports = [o \in Objs |-> "NotImplemented"]
  /\ call = NoCall
  /\ result = NoResult
  /\ packages = [u \in Users |-> << >>]
  /\ files = {}
  /\ handlers = [w \in Workers |-> Idle]
  /\ overlapped = FALSE
  /\ uploads = 0
  /\ response = NoResponse

\* ---- specifications ------------------------------------------------------
Init ==
  /\ resolvers \in ResolverChains
  /\ filename = [o \in Objs |-> NoFile]
  /\ loaded = [o \in Objs |-> FALSE]
  /\ exception = [o \in Objs |-> NoExc]
  /\ modules = [f \in Filenames |-> None]
  /\ module_stack = << >>
  /\ cache = [d \in Facades |-> [s \in Strings |-> None]]
  /\ callstack = << >>
  /\ exc = NoExc
  /\ started = {}
  /\ last = Last("init", None, NoExc, FALSE)
  /\ main_module = None
  /\ scopes = << >>
  /\ mlast = MLast("init", None, NoExc)
  /\ exports = [o \in Objs |-> "NotImplemented"]
  /\ call = NoCall
  /\ result = NoResult
  /\ packages = [u \in Users |-> << >>]
  /\ files = {}
  /\ handlers = [w \in Workers |-> Idle]
  /\ overlapped = FALSE
  /\ uploads = 0
  /\ response = NoResponse

Next ==
  \/ \E d \in Dirs, s \in Strings :
       \E outs \in CanonicalVectors(resolvers, filename) : CallResolve(d, s, outs)
  \/ \E o \in Objs, do_init \in BOOLEAN : CallLoadModule(o, do_init)
  \/ \E d \in Facades, s \in Strings :
       \E outs \in CanonicalVectors(resolvers, filename) : CallRequire(d, s, outs)
  \/ BodyReturn
  \/ BodyRaise
  \/ BodyPropagate
  \/ BodyCatch

Spec == Init /\ [][Next]_vars

SpecMain == Init /\ [][NextMain]_vars

SpecTry == InitTry /\ [][NextTry]_vars

SpecRequire == Init /\ [][NextRequire]_vars

SpecUpload == Init /\ [][NextUpload]_vars


\* ---- properties ----------------------------------------------------------
Requests == {Request(d, s) : d \in Dirs, s \in Strings}
AllVectors == OutcomeVectors(resolvers, filename)

\* position of the first resolver that does not raise ResolveError, 0 if none
FirstAnswer(outs) ==
  IF \E i \in DOMAIN outs : outs[i] # Fail
  THEN CHOOSE i \in DOMAIN outs :
         outs[i] # Fail /\ \A j \in DOMAIN outs : j < i => outs[j] = Fail
  ELSE 0

RECURSIVE ConcatPaths(_)
ConcatPaths(chain) ==
  IF chain = << >> THEN << >>
  ELSE SearchPaths(Head(chain)) \o ConcatPaths(Tail(chain))

\* a load_module call pushed a frame in this step / a frame was popped
Entered == Len(callstack') = Len(callstack) + 1
Exited == Len(callstack') = Len(callstack) - 1

\* C1 (state part): the cache is keyed by the identity of the cached object,
\* and whatever the resolvers answer, a Module returned by Context.resolve
\* is the object cached under its identity, before (if any) and after.
C1_CacheAgrees ==
  /\ \A f \in Filenames : modules[f] # None => filename[modules[f]] = f
  /\ \A req \in Requests, outs \in AllVectors :
       LET r == ContextResolve(req, outs) IN
       r.m # None =>
         /\ modules[r.filename[r.m]] \in {None, r.m}
         /\ r.modules[r.filename[r.m]] = r.m
         /\ \A f \in Filenames : r.modules[f] # None => r.filename[r.modules[f]] = f

\* C1 (step part): a resolve that returns m found the identity of m either
\* absent from the cache or cached as m itself, and leaves it cached as m.
C1_ResolveStep ==
  (last'.op = "resolve" /\ last'.m # None) =>
     /\ modules[filename'[last'.m]] \in {None, last'.m}
     /\ modules'[filename'[last'.m]] = last'.m

\* C1: identity uniqueness. The cache holds one object per identity, keyed
\* by that object's filename, and Context.resolve never returns an object
\* different from the one cached under the identity: two resolves reaching
\* one identity with no eviction in between return the same object.
C1_IdentityUniqueness == [](C1_CacheAgrees) /\ [][C1_ResolveStep]_vars

\* a resolve returned a module that had been resolved and loaded before
C1_Witness ==
  /\ last.op = "resolve" /\ last.m # None
  /\ loaded[last.m]
  /\ modules[filename[last.m]] = last.m

\* C6: aggregate search reporting. Context.resolve consults the resolvers in
\* chain order and stops at the first that does not raise ResolveError; when
\* all raise, the ResolveError carries the request and the concatenation, in
\* chain order, of the search paths of every resolver.
C6_AggregateSearchPaths ==
  /\ \A req \in Requests, outs \in AllVectors :
       LET r == ContextResolve(req, outs)
           k == FirstAnswer(outs) IN
       /\ k = 0 => /\ r.err = ResolveError(req, ConcatPaths(resolvers))
                   /\ r.consulted = Len(resolvers)
                   /\ r.m = None /\ r.modules = modules
       /\ k # 0 => /\ r.consulted = k
                   /\ r.err.type # "ResolveError"
                   /\ r.m # None => r.m = IF outs[k].kind = "fresh"
                                          THEN NextObj(filename) ELSE outs[k].m
  /\ (last.op \in {"resolve", "require"} /\ last.err.type = "ResolveError"
        /\ last.m = None /\ ~ last.init) =>
       /\ last.err.paths = ConcatPaths(resolvers)
       /\ last.err.req \in Requests

\* a resolve through the chain of two resolvers failed, with all three paths
C6_Witness ==
  /\ last.op = "resolve"
  /\ last.err.type = "ResolveError"
  /\ Len(resolvers) = 2
  /\ last.err.paths = << <<"R1", 1>>, <<"R2", 1>>, <<"R2", 2>> >>

\* the answer of the first resolver that answers is a defect: a non-Module,
\* or a Module other than the one cached under its identity
Defect(out) ==
  \/ out.kind = "nonmodule"
  \/ /\ out.kind \in {"module", "fresh"}
     /\ modules[out.file] # None
     /\ (out.kind = "fresh" \/ modules[out.file] # out.m)

\* C7 (state): whatever the resolvers answer, a defective first answer
\* makes Context.resolve raise a RuntimeError at that resolver, cache untouched
C7_DefectOutcome ==
  \A req \in Requests, outs \in AllVectors :
    LET r == ContextResolve(req, outs)
        k == FirstAnswer(outs) IN
    (k # 0 /\ Defect(outs[k])) =>
      /\ r.err \in {NonModuleError, CollisionError}
      /\ r.err.type # "ResolveError"
      /\ r.m = None
      /\ r.consulted = k
      /\ r.modules = modules

\* C7 (step): a resolve that raises one of the two defect errors leaves the
\* cache as it was
C7_DefectStep ==
  (last'.op \in {"resolve", "require"} /\ last'.m = None
     /\ last'.err \in {NonModuleError, CollisionError})
  => modules' = modules

\* C7: a defective answer of a resolver makes Context.resolve raise a
\* RuntimeError, not a ResolveError, without consulting later resolvers and
\* without changing the cache.
C7_ResolverDefects == [](C7_DefectOutcome) /\ [][C7_DefectStep]_vars

\* a resolver returned a second object for a cached identity
C7_Witness ==
  /\ last.op = "resolve"
  /\ last.err = CollisionError
  /\ \E o, p \in Minted(filename) :
       o # p /\ filename[o] = filename[p] /\ modules[filename[o]] = o
            /\ exception[p] = NoExc /\ ~ loaded[p] /\ p \notin started


\* C2: at-most-one load. Module.load is never invoked on an object on which
\* it was invoked before.
C2_AtMostOneLoad ==
  [][Entered => Top(callstack').m \notin started]_vars

\* C3: cycle safety. The load stack never contains the same module twice.
C3_NoModuleTwiceOnStack ==
  \A i, j \in DOMAIN module_stack :
    i # j => module_stack[i] # module_stack[j]

\* C4 (step): load_module on an object with a stored exception raises the
\* stored exception and runs no init hook, pushes nothing, invokes no load.
C4_StickyStep ==
  /\ (last'.op = "load_module" /\ exception[last'.m] # NoExc) =>
        /\ last'.err = exception[last'.m]
        /\ ~ last'.init
        /\ exc' = Deliver(callstack, exception[last'.m])
        /\ UNCHANGED <<filename, loaded, exception, modules, module_stack,
                       cache, callstack, started>>
  /\ (last'.op = "require" /\ last'.m # None
        /\ exception[last'.m] # NoExc /\ ~ loaded[last'.m]) =>
        /\ last'.err = exception[last'.m]
        /\ ~ last'.init
        /\ UNCHANGED <<loaded, exception, module_stack, callstack, started>>

\* C4: sticky failure replay. Once Module.load of M has raised, every later
\* load_module(M) re-raises the stored error without running the init hook,
\* pushing M or invoking M's load again, also when M is out of the cache.
C4_StickyFailureReplay == [][C4_StickyStep]_vars

\* load_module re-raised the stored error of a failed, evicted module
C4_Witness ==
  /\ last.op = "load_module"
  /\ last.err = BodyError
  /\ exception[last.m] = BodyError
  /\ modules[filename[last.m]] = None
  /\ ~ last.init

\* C5 (state): right after a failed load the identity is out of the cache,
\* and a facade whose entry for s holds a failed module consults the
\* resolver chain for s again and takes what Context.resolve returns.
C5_EvictedAndReResolved ==
  /\ last.op = "load_fail" => modules[filename[last.m]] = None
  /\ \A d \in Facades, s \in Strings, outs \in AllVectors :
       (cache[d][s] # None /\ exception[cache[d][s]] # NoExc) =>
          LET rr == RequireResolve(d, s, outs)
              r == ContextResolve(Request(d, s), outs) IN
          /\ rr.consulted = r.consulted
          /\ rr.consulted >= 0
          /\ rr.m = r.m /\ rr.err = r.err /\ rr.modules = r.modules
          /\ r.err = NoExc => rr.cache[d][s] = r.m

\* C5 (step): a require that replaces the failed entry of a facade by a
\* freshly minted module finds the identity absent from the cache, registers
\* the new module and starts its own load.
C5_FreshAttemptStep ==
  (/\ last'.op = "require" /\ last'.m # None
   /\ filename[last'.m] = NoFile
   /\ \E d \in Facades, s \in Strings :
        /\ cache[d][s] # None /\ exception[cache[d][s]] # NoExc
        /\ cache'[d][s] = last'.m) =>
     /\ modules[filename'[last'.m]] = None
     /\ modules'[filename'[last'.m]] = last'.m
     /\ Entered /\ Top(callstack').m = last'.m
     /\ last'.m \notin started /\ last'.m \in started'
     /\ last'.err = NoExc /\ last'.init

\* C5: retry after eviction.
C5_RetryAfterEviction ==
  [](C5_EvictedAndReResolved) /\ [][C5_FreshAttemptStep]_vars

\* the body of a fresh module runs, required through the facade whose entry
\* held the failed module of the same identity
C5_Witness ==
  /\ last.op = "require" /\ last.init
  /\ callstack # << >> /\ Top(callstack).m = last.m
  /\ \E d \in Facades, s \in Strings : cache[d][s] = last.m
  /\ \E o \in Minted(filename) :
       /\ o # last.m /\ filename[o] = filename[last.m]
       /\ exception[o] # NoExc /\ o < last.m
  /\ modules[filename[last.m]] = last.m

\* C8: every module whose body is executed is, when its load begins, the
\* object registered in the cache under its identity.
C8_LoadedOnlyIfRegistered ==
  [][Entered =>
       modules'[filename'[Top(callstack').m]] = Top(callstack').m]_vars

\* C9 (state): the load stack mirrors the load_module calls in progress
C9_StackMirrorsCalls ==
  /\ Len(module_stack) = Len(callstack)
  /\ \A i \in DOMAIN callstack :
       /\ module_stack[i] = callstack[i].m
       /\ callstack[i].pre = SubSeq(module_stack, 1, i - 1)
  /\ callstack = << >> => module_stack = << >>

\* C9 (step): a load_module call that ends restores the stack it found; one
\* that raises or returns at once leaves the stack alone
C9_BalanceStep ==
  /\ Exited => module_stack' = Top(callstack).pre
  /\ (last'.op \in {"load_module", "require", "resolve"} /\ ~ Entered) =>
       module_stack' = module_stack

\* C9: load-stack balance. Every load_module call, returning or raising,
\* leaves module_stack as it found it; the stack is empty when no load is in
\* progress.
C9_LoadStackBalance == [](C9_StackMirrorsCalls) /\ [][C9_BalanceStep]_vars

\* a nested load failed and the stack is back to the outer module alone
C9_Witness ==
  /\ last.op = "load_fail"
  /\ Len(callstack) = 1
  /\ module_stack = << callstack[1].m >>
  /\ last.m # callstack[1].m

\* C10: current_module is None exactly when the load stack is empty, and
\* otherwise the module whose load procedure is executing: the most recently
\* pushed one, again the outer module once a nested load has ended.
C10_CurrentModule ==
  /\ (current_module = None) <=> (module_stack = << >>)
  /\ callstack = << >> => current_module = None
  /\ callstack # << >> => current_module = Top(callstack).m

\* a nested load of another module returned; the outer one is current again
C10_Witness ==
  /\ last.op = "load_return"
  /\ Len(callstack) = 1
  /\ last.m # callstack[1].m
  /\ loaded[last.m]
  /\ current_module = callstack[1].m


\* C15: facade memoization. The entry of a module that has been loaded
\* successfully is permanent: the facade's cache never replaces it.
C15_LoadedEntryPermanent ==
  [][\A d \in DOMAIN cache : \A s \in DOMAIN cache[d] :
       (cache[d][s] # None /\ loaded[cache[d][s]])
         => cache'[d][s] = cache[d][s]]_vars

\* C17: load-state lifecycle. Loaded and Failed are exclusive and terminal:
\* no module is loaded and holds an exception, a loaded module gets no
\* exception stored and is not evicted, a failed module does not become loaded.
C17_LoadedXorFailed ==
  [](\A o \in Objs : ~ (loaded[o] /\ exception[o] # NoExc))
  /\ [][\A o \in Objs :
          /\ loaded[o] => /\ exception'[o] = NoExc
                          /\ modules[filename[o]] = o => modules'[filename[o]] = o
          /\ exception[o] # NoExc => ~ loaded'[o]]_vars

\* C18: when the load procedure of M raises E, load_module(M) stores E,
\* leaves M's identity out of the cache and raises E itself.
C18_FailureRaisesOwnError ==
  last.op = "load_fail" =>
    /\ exception[last.m] = last.err
    /\ modules[filename[last.m]] = None

\* C19: the load-stack corruption check never fires: whenever a load_module
\* call is about to pop, the top of the load stack is the module it pushed,
\* (the pop finds the stack not empty), and no 'module_stack corrupted'
\* error, and no IndexError of the pop, is ever raised or stored.
C19_NoStackCorruption ==
  /\ callstack # << >> =>
       Popped = [raised |-> NoExc, value |-> Top(callstack).m]
  /\ last.err \notin {CorruptedError, IndexError}
  /\ exc \notin {CorruptedError, IndexError}
  /\ \A o \in Objs : exception[o] \notin {CorruptedError, IndexError}

\* a re-entrant load of the module still loading below it failed and was
\* popped; the outer load of the same module goes on
C19_Witness ==
  /\ last.op = "load_fail"
  /\ last.err = BodyError
  /\ callstack # << >>
  /\ Top(callstack).m = last.m
  /\ module_stack = [i \in 1..Len(callstack) |-> callstack[i].m]

\* C14: push_main(M) makes M the main module inside the scope; when the
\* scope is left, normally or by an exception, main_module is the value
\* it had when the scope was entered, so nested scopes restore in LIFO
\* order; an argument that is not a Module is refused with TypeError and
\* leaves main_module and the open scopes as they were.
C14_EnterStep ==
  mlast'.op = "enter" =>
    IF IsModule(mlast'.arg)
      THEN /\ mlast'.err = NoExc
           /\ main_module' = mlast'.arg
           /\ Len(scopes') = Len(scopes) + 1
      ELSE /\ mlast'.err = TypeError
           /\ main_module' = main_module
           /\ scopes' = scopes

C14_ExitStep ==
  mlast'.op = "exit" =>
    /\ scopes # << >>
    /\ main_module' = Top(scopes).at_entry
    /\ scopes' = Pop(scopes)

C14_ScopedOverride ==
  /\ [][mlast' # mlast => C14_EnterStep /\ C14_ExitStep]_vars
  /\ [](\A i \in 1..Len(scopes) :
          scopes[i].prev_module = scopes[i].at_entry)

\* an inner scope left by an exception restores the main module of
\* the outer scope, which is still open
C14_Witness ==
  /\ mlast.op = "exit"
  /\ mlast.err = BodyError
  /\ scopes # << >>
  /\ main_module = mlast.arg
  /\ main_module # None
  /\ main_module # Top(scopes).at_entry

\* ---- properties of Require.try_ and Require.__call__ ----------------------
\* a step that ends the try_ call in progress
TryEnds == call.kind = "try" /\ call'.kind = "none"
\* a step after which try_ goes on with the next request
TryMovesOn == call.kind = "try" /\ call'.kind = "try" /\ call'.rest # call.rest
\* the position of the request being attempted
Position(c) == Len(c.all) - Len(c.rest) + 1
\* the requests after the one being attempted
Later(c) == {c.rest[i] : i \in 2..Len(c.rest)}
\* the attempt made last failed as not found for its own request
NotFound(c, e) ==
  e.type = "ResolveError" /\ e.req = Request(c.d, Head(c.rest))

\* C11: try_ attempts its requests in the given order and returns the
\* result of the first that succeeds, attempting no later request; when
\* every request fails as not found, it raises the ResolveError of the
\* request attempted last; with zero requests it raises ValueError and
\* resolves and loads nothing.
C11_ReturnsFirstSuccess ==
  (TryEnds /\ last'.err = NoExc) =>
    /\ result'.status = "returned"
    /\ result'.all = call.all
    /\ result'.tried = Position(call)
    /\ result'.m = last'.m
    /\ result'.m # None
    /\ result'.value.m = result'.m
    /\ call.load => loaded'[result'.m]
    /\ \A s \in Later(call) \ {Head(call.rest)} :
         cache'[call.d][s] = cache[call.d][s]

C11_InOrder ==
  TryMovesOn =>
    /\ call'.rest = Tail(call.rest)
    /\ call'.all = call.all
    /\ last'.err # NoExc

C11_RaisesLastNotFound ==
  (TryEnds /\ NotFound(call, last'.err) /\ Len(call.rest) = 1) =>
    /\ result'.status = "raised"
    /\ result'.err = last'.err
    /\ result'.tried = Len(call.all)

C11_ZeroRequests ==
  (call.kind = "none" /\ call'.kind = "none" /\ result'.kind = "try") =>
    /\ result'.all = << >>
    /\ result'.status = "raised"
    /\ result'.err = ValueError
    /\ UNCHANGED cvars

C11_CandidateOrder ==
  [][/\ C11_ReturnsFirstSuccess
     /\ C11_InOrder
     /\ C11_RaisesLastNotFound
     /\ C11_ZeroRequests]_vars

\* "a" was not found, "b" was resolved and loaded by the call, and its
\* result was returned
C11_Witness ==
  /\ result.kind = "try"
  /\ result.status = "returned"
  /\ result.all = <<"a", "b">>
  /\ result.tried = 2
  /\ result.ran
  /\ cache["d1"]["a"] = None
  /\ cache["d1"]["b"] = result.m
  /\ loaded[result.m]

\* C12: when a candidate of try_ was resolved and its load raises an error
\* that is not a ResolveError, try_ raises that error at once: no later
\* candidate is resolved or loaded, and the candidate is left failed (its
\* error stored); when the call ran the load that raised, the candidate's
\* identity is out of Context.modules, as after a failed require.
LoadError(e) == e # NoExc /\ e.type # "ResolveError"

C12_Propagates ==
  (call.kind = "try" /\ call' # call /\ LoadError(last'.err) /\ last'.m # None) =>
    /\ call'.kind = "none"
    /\ result'.status = "raised"
    /\ result'.err = last'.err
    /\ result'.tried = Position(call)
    /\ \A s \in Later(call) \ {Head(call.rest)} :
         cache'[call.d][s] = cache[call.d][s]

C12_LeftFailedAndEvicted ==
  (result.kind = "try" /\ result.status = "raised" /\ LoadError(result.err)
     /\ result.m # None /\ call.kind = "none" /\ callstack = << >>) =>
    /\ exception[result.m] # NoExc
    /\ result.ran => /\ modules[filename[result.m]] = None
                     /\ last.op = "load_fail"
                     /\ last.m = result.m

C12_LoadErrorNotMasked ==
  [](C12_LeftFailedAndEvicted) /\ [][C12_Propagates]_vars

\* the body of candidate "a" raised; "b" was never resolved
C12_Witness ==
  /\ result.kind = "try"
  /\ result.status = "raised"
  /\ result.err = BodyError
  /\ result.all = <<"a", "b">>
  /\ result.tried = 1
  /\ result.ran
  /\ exception[result.m] = BodyError
  /\ cache["d1"]["b"] = None

\* C13: try_ goes on with the next request only when the resolution of
\* the request just attempted failed; a ResolveError raised by any other
\* lookup, such as one made by the body of a candidate that was resolved,
\* is raised by try_ at once.
\* the error of the attempt comes from its own Require.resolve
OwnResolution == last'.op \in {"require", "resolve"} /\ last'.m = None

C13_StepOnlyOwnNotFound ==
  /\ TryMovesOn => (OwnResolution /\ NotFound(call, last'.err))
  /\ (call.kind = "try" /\ call' # call /\ last'.err.type = "ResolveError"
        /\ ~ OwnResolution) =>
       /\ call'.kind = "none"
       /\ result'.status = "raised"
       /\ result'.err = last'.err

C13_NextOnlyWhenNotFound == [][C13_StepOnlyOwnNotFound]_vars

\* no call of the embedding program is in progress, and a call of
\* Require.__call__ has ended
RequireEnded ==
  call.kind = "none" /\ callstack = << >> /\ result.kind = "require"

\* C16: Require.__call__(request, exports=True) returns module.exports
\* when exports was set to any value, None included, and module.namespace
\* only while exports is the sentinel NotImplemented; with exports=False it
\* returns the Module object; in each case the module was resolved by the
\* facade and is loaded when the value is returned, and when the resolve
\* or the load raised, that error is raised and no value is returned.
C16_ReturnedValue ==
  (RequireEnded /\ result.status = "returned") =>
    LET m == result.m
        value == result.value IN
    /\ m # None
    /\ m \in Minted(filename)
    /\ loaded[m]
    /\ value.m = m
    /\ result.want =>
         /\ exports[m] = "NotImplemented" => value.kind = "namespace"
         /\ exports[m] # "NotImplemented" =>
              (value.kind = "exports" /\ value.v = exports[m])
    /\ ~ result.want => value.kind = "module"

C16_RaisedError ==
  (RequireEnded /\ result.status = "raised") =>
    /\ result.err # NoExc
    /\ result.err = last.err
    /\ result.value = NoValue

C16_ResultSelection == C16_ReturnedValue /\ C16_RaisedError

\* the body set exports to None, and None is what require returned
C16_Witness ==
  /\ RequireEnded
  /\ result.status = "returned"
  /\ result.want
  /\ result.ran
  /\ result.value.kind = "exports"
  /\ result.value.v = "None"

\* ---- properties of the package registry -----------------------------------
\* the uploads so far were handled one at a time
OneAtATime == ~ overlapped

\* the request answered last was answered by the handler: it passed the
\* decorators (authenticated: not 401; its version parsed: not 404) and
\* no call of the handler raised (not the 500 of json_catch_error)
Handled == response.op = "upload" /\ response.code \notin {401, 404, 500}

\* C20: with the uploads handled one at a time, an authenticated upload
\* for a package that is in the packages of another user is rejected with
\* status 400, writes no file and changes no packages list (the version
\* of the request parses and no call of the handler raises: such a
\* request is answered 404 or 500, not 400).
C20_OwnedByOtherRejected ==
  (/\ OneAtATime
   /\ Handled
   /\ ListedForOther(response.package, response.user)) =>
    /\ response.code = 400
    /\ response.stored = {}
    /\ ~ response.added

\* a package is appended to the packages of the uploader only by a
\* handler that ran to line 223: it ends with status ok, or with status
\* 500 when the print of line 224 raised; the uploads handled one at a
\* time, no other user has the package and the uploader has it
C20_AddedOnlyAtEnd ==
  response.added =>
    /\ response.code \in {200, 500}
    /\ response.code = 200 => response.status = "ok"
    /\ response.stored # {}
    /\ OneAtATime =>
         /\ ~ ListedForOther(response.package, response.user)
         /\ \E i \in DOMAIN packages[response.user] :
              packages[response.user][i] = response.package

\* the number of entries of the packages lists that are package p
Listings(p) ==
  Cardinality({e \in UNION {{<<u, i>> : i \in DOMAIN packages[u]} : u \in Users} :
                 packages[e[1]][e[2]] = p})

\* with the uploads handled one at a time, each package name is in the
\* packages of at most one user, at most once
C20_ListedAtMostOnce ==
  OneAtATime => \A p \in PackageNames : Listings(p) <= 1

\* a user stored files in the directory of a package of another user,
\* the uploads handled one at a time
C20_Hijacked ==
  /\ OneAtATime
  /\ Handled
  /\ ListedForOther(response.package, response.user)
  /\ response.status = "ok"
  /\ response.stored # {}

\* the uploads handled one at a time, an upload answered 500 gave the
\* package to the uploader
C20_AddedThenFailed ==
  /\ OneAtATime
  /\ response.code = 500
  /\ response.added
  /\ \E i \in DOMAIN packages[response.user] :
       packages[response.user][i] = response.package

\* two uploads that overlapped left a package in the packages of both
\* users
C20_RaceListedTwice ==
  /\ overlapped
  /\ \E p \in PackageNames : \A u \in Users :
       \E i \in DOMAIN packages[u] : packages[u][i] = p

\* a handler is to save its user with a packages list that lacks a
\* package the user was given since the handler read it: user.save will
\* take the package from the user
C20_RaceStaleList ==
  \E w \in Workers :
    /\ handlers[w].stage = "user.save"
    /\ \E i \in DOMAIN packages[handlers[w].user] :
         \A j \in DOMAIN handlers[w].list :
           handlers[w].list[j] # packages[handlers[w].user][i]

\* an upload answered 500 left files behind
C20_FailedUploadStored ==
  /\ response.code = 500
  /\ response.stored # {}
  /\ response.stored \subseteq files

====
